---- MODULE Spec2Model ----
(***************************************************************************)
(* CDR-Finder (workflow/scripts/cdr_finder.py): detection of centromere    *)
(* dip regions in a binned methylation track.                              *)
(*                                                                         *)
(* Numbers.  avg values are integers here.  The chromosome median is a     *)
(* multiple of 1/2, and a flank median taken after substituting it is a    *)
(* multiple of 1/4, so every median, edge height and CDR height is kept    *)
(* in quarter units (Q(v) = 4 * v), which makes them integers.  The        *)
(* fractions thr_height_perc_valley and thr_prom_perc_valley are given on  *)
(* the command line as decimal text, here the rational [num, den] the text *)
(* denotes, and parsed by float().  The parsed fractions, the thresholds   *)
(* (chromosome median times fraction), the interpolated peak boundaries of *)
(* find_peaks and their difference are float64 values, computed with the   *)
(* roundings of IEEE-754 binary64: a magnitude is [int, frac], its integer *)
(* part and the limbs of its fractional part, and a signed value is        *)
(* [neg, mag].  Optional values (None) are sequences of length 0 or 1.     *)
(***************************************************************************)
EXTENDS Integers, Sequences, FiniteSets, TLC

None == <<>>
Some(v) == <<v>>

SetMin(S) == CHOOSE m \in S : \A y \in S : m <= y
SetMax(S) == CHOOSE m \in S : \A y \in S : y <= m
Min2(a, b) == IF a <= b THEN a ELSE b
Max2(a, b) == IF a >= b THEN a ELSE b
Range(s) == {s[i] : i \in DOMAIN s}

(***************************************************************************)
(* Python truthiness of an optional number: None and 0 are both false.     *)
(***************************************************************************)
Truthy(o) == o # None /\ o[1] # 0

(***************************************************************************)
(* polars Series.median(): None for an empty series, else the middle       *)
(* element of the sorted values or the mean of the two middle ones.  The   *)
(* values are in quarter units and even, so the mean is exact.             *)
(***************************************************************************)
Q(v) == 4 * v

Kth(s, k) ==
  CHOOSE v \in Range(s) :
    /\ Cardinality({i \in DOMAIN s : s[i] < v}) < k
    /\ k <= Cardinality({i \in DOMAIN s : s[i] <= v})

Median(s) ==
  IF s = <<>> THEN None
  ELSE LET n == Len(s)
       IN IF n % 2 = 1 THEN Some(Kth(s, (n + 1) \div 2))
          ELSE Some((Kth(s, n \div 2) + Kth(s, n \div 2 + 1)) \div 2)

\* df["avg"], in quarter units.
AvgQ(rows) == [i \in DOMAIN rows |-> Q(rows[i].avg)]

(***************************************************************************)
(* get_interval: the rows fully inside interval, each with an ignore flag  *)
(* that is true when the row lies fully inside one of ignore_intervals.    *)
(* An empty or missing ignore_intervals flags nothing.                     *)
(***************************************************************************)
Inside(row, interval) == row.st >= interval.begin /\ row.end <= interval.end

get_interval(df, interval, ignore_intervals) ==
  LET Keep(row) == Inside(row, interval)
      df_res == SelectSeq(df, Keep)
  IN [i \in DOMAIN df_res |->
        [index |-> df_res[i].index, chrom |-> df_res[i].chrom,
         st |-> df_res[i].st, end |-> df_res[i].end, avg |-> df_res[i].avg,
         ignore |-> IF ignore_intervals # {}
                    THEN \E other \in ignore_intervals : Inside(df_res[i], other)
                    ELSE FALSE]]

(***************************************************************************)
(* Contiguous-run segmenter (main, "Group adjacent, contiguous             *)
(* intervals").  brk compares each row's end with the next row's start,    *)
(* the last row's null is filled with True; rle_id numbers the runs of     *)
(* equal brk values from 0; an even id is raised by one; partition_by      *)
(* groups the rows by the resulting id, keeping row order.                 *)
(***************************************************************************)
Brk(rows) ==
  [i \in DOMAIN rows |->
     IF i < Len(rows) THEN rows[i].end = rows[i + 1].st ELSE TRUE]

RleId(b) ==
  [i \in DOMAIN b |-> Cardinality({j \in 2..i : b[j] # b[j - 1]})]

BrkGroup(id) == IF id % 2 = 0 THEN id + 1 ELSE id

GroupIds(rows) ==
  LET ids == RleId(Brk(rows))
  IN [i \in DOMAIN rows |-> BrkGroup(ids[i])]

RECURSIVE PartitionBy(_, _, _)
PartitionBy(rows, key, done) ==
  LET left == {i \in DOMAIN rows : key[i] \notin done}
  IN IF left = {} THEN <<>>
     ELSE LET k == key[SetMin(left)]
              InGroup(i) == key[i] = k
              idx == SelectSeq([i \in DOMAIN rows |-> i], InGroup)
          IN <<[j \in DOMAIN idx |-> rows[idx[j]]]>>
               \o PartitionBy(rows, key, done \cup {k})

AdjGroups(df_chr_methyl) ==
  PartitionBy(df_chr_methyl, GroupIds(df_chr_methyl), {})

(***************************************************************************)
(* with_row_index: a 0-based index column.                                 *)
(***************************************************************************)
WithRowIndex(rows) ==
  [i \in DOMAIN rows |->
     [index |-> i - 1, chrom |-> rows[i].chrom, st |-> rows[i].st,
      end |-> rows[i].end, avg |-> rows[i].avg]]

(***************************************************************************)
(* float64 arithmetic of the thresholds and of find_peaks' peak widths.    *)
(* A magnitude is [int, frac]: its integer part and its fractional part,   *)
(* the latter as NumLimbs limbs of LimbDigits binary digits each, most     *)
(* significant first, so fraction digit pos (1 is the halves) lies in limb *)
(* LimbOf(pos).  Every operation computes the exact result and rounds it   *)
(* to Mantissa significant binary digits, to nearest, ties to even; the    *)
(* rounding of a negative value is that of its magnitude.  The limbs hold  *)
(* every double met for avg values below 2^15, fractions num / den with    *)
(* |num| and den below 2^29, and thresholds below 2^29 in magnitude.       *)
(***************************************************************************)
Mantissa == 53
LimbDigits == 26
ChunkDigits == 13
NumLimbs == 4

Base == 2^LimbDigits
Chunk == 2^ChunkDigits
FracDigits == NumLimbs * LimbDigits

Abs(i) == IF i < 0 THEN 0 - i ELSE i

Dbl(int, frac) == [int |-> int, frac |-> frac]
NoFrac == <<0, 0, 0, 0>>
FromInt(i) == Dbl(i, NoFrac)

\* The number of binary digits of the natural number n.
RECURSIVE BitLength(_)
BitLength(n) == IF n = 0 THEN 0 ELSE 1 + BitLength(n \div 2)

LimbOf(pos) == (pos - 1) \div LimbDigits + 1

\* The weight, within its limb, of fraction digit pos.
Weight(pos) == 2^(LimbDigits * LimbOf(pos) - pos)

Digit(frac, pos) == (frac[LimbOf(pos)] \div Weight(pos)) % 2

\* Some fraction digit after pos is 1.
RestAfter(frac, pos) ==
  \E j \in LimbOf(pos)..NumLimbs :
    IF j = LimbOf(pos) THEN frac[j] % Weight(pos) # 0 ELSE frac[j] # 0

\* The fraction digits 1..keep, the later ones cleared.
High(frac, keep) ==
  [j \in 1..NumLimbs |->
     IF LimbDigits * j <= keep THEN frac[j]
     ELSE IF LimbDigits * (j - 1) >= keep THEN 0
     ELSE frac[j] - (frac[j] % Weight(keep))]

\* The position of the first fraction digit that is 1 (frac # NoFrac).
LeadPos(frac) ==
  LET j == SetMin({i \in 1..NumLimbs : frac[i] # 0})
  IN LimbDigits * j - BitLength(frac[j]) + 1

\* Limbs brought back into 0..Base-1, carries and borrows moved leftwards.
Carried(int, f) ==
  LET s3 == f[3] + f[4] \div Base
      s2 == f[2] + s3 \div Base
      s1 == f[1] + s2 \div Base
  IN Dbl(int + s1 \div Base,
         <<s1 % Base, s2 % Base, s3 % Base, f[4] % Base>>)

\* A value of an integer part below Base and no fraction digit after the
\* first limb has fewer than Mantissa digits and is kept as it is.
RoundNearestEven(v) ==
  LET keep == IF v.int > 0 THEN Mantissa - BitLength(v.int)
              ELSE IF v.frac = NoFrac THEN FracDigits
              ELSE LeadPos(v.frac) + Mantissa - 1
  IN IF v.int < Base /\ ~RestAfter(v.frac, LimbDigits) THEN v
     ELSE IF keep >= FracDigits THEN v
     ELSE LET guard == Digit(v.frac, keep + 1)
              sticky == RestAfter(v.frac, keep + 1)
              lsb == IF keep = 0 THEN v.int % 2 ELSE Digit(v.frac, keep)
              kept == High(v.frac, keep)
          IN IF guard = 1 /\ (sticky \/ lsb = 1)
             THEN IF keep = 0 THEN Dbl(v.int + 1, NoFrac)
                  ELSE Carried(v.int, [kept EXCEPT ![LimbOf(keep)] =
                                                     @ + Weight(keep)])
             ELSE Dbl(v.int, kept)

\* Long division of r / b (0 <= r < b): n steps of quotient digits, w = 2^d
\* for d digits a step; the quotient digits after acc, and the rest.
RECURSIVE DivDigits(_, _, _, _, _)
DivDigits(r, b, n, w, acc) ==
  IF n = 0 THEN <<acc, r>>
  ELSE DivDigits((r * w) % b, b, n - 1, w, acc * w + (r * w) \div b)

\* The next limb of quotient digits of r / b, and the rest: none when
\* nothing is left to divide, else two steps of ChunkDigits digits when
\* r * Chunk fits the integers, else steps of two digits.
DivLimb(r, b) ==
  IF r = 0 THEN <<0, 0>>
  ELSE IF b <= 2^(31 - ChunkDigits) THEN DivDigits(r, b, 2, Chunk, 0)
  ELSE DivDigits(r, b, LimbDigits \div 2, 4, 0)

\* a / b for the naturals a and b > 0: the first FracDigits digits of the
\* fraction, the last one set when a rest is left, then rounded.
DblDiv(a, b) ==
  LET d1 == DivLimb(a % b, b)
      d2 == DivLimb(d1[2], b)
      d3 == DivLimb(d2[2], b)
      d4 == DivLimb(d3[2], b)
  IN RoundNearestEven(
       Dbl(a \div b,
           <<d1[1], d2[1], d3[1],
             IF d4[2] # 0 /\ d4[1] % 2 = 0 THEN d4[1] + 1 ELSE d4[1]>>))

\* u + v
DblAdd(u, v) ==
  RoundNearestEven(
    Carried(u.int + v.int, [j \in 1..NumLimbs |-> u.frac[j] + v.frac[j]]))

\* u - v, for u >= v
DblSub(u, v) ==
  RoundNearestEven(
    Carried(u.int - v.int, [j \in 1..NumLimbs |-> u.frac[j] - v.frac[j]]))

\* The limbs of frac as chunks of ChunkDigits digits.
Chunks(frac) ==
  [t \in 1..(2 * NumLimbs) |->
     IF t % 2 = 1 THEN frac[(t + 1) \div 2] \div Chunk
     ELSE frac[t \div 2] % Chunk]

\* q / 4 * v for the natural q (a value in quarter units) and the magnitude
\* v: q * v chunk by chunk with the carries moved leftwards, a quarter of it
\* (two digits to the right, the last digit set when a 1 is pushed out),
\* then rounded.
DblMulQ(q, v) ==
  LET c == Chunks(v.frac)
      t8 == q * c[8]
      t7 == q * c[7] + t8 \div Chunk
      t6 == q * c[6] + t7 \div Chunk
      t5 == q * c[5] + t6 \div Chunk
      t4 == q * c[4] + t5 \div Chunk
      t3 == q * c[3] + t4 \div Chunk
      t2 == q * c[2] + t3 \div Chunk
      t1 == q * c[1] + t2 \div Chunk
      whole == q * v.int + t1 \div Chunk
      l1 == (t1 % Chunk) * Chunk + (t2 % Chunk)
      l2 == (t3 % Chunk) * Chunk + (t4 % Chunk)
      l3 == (t5 % Chunk) * Chunk + (t6 % Chunk)
      l4 == (t7 % Chunk) * Chunk + (t8 % Chunk)
      last == (l3 % 4) * (Base \div 4) + l4 \div 4
  IN RoundNearestEven(
       Dbl(whole \div 4,
           <<(whole % 4) * (Base \div 4) + l1 \div 4,
             (l1 % 4) * (Base \div 4) + l2 \div 4,
             (l2 % 4) * (Base \div 4) + l3 \div 4,
             IF l4 % 4 # 0 /\ last % 2 = 0 THEN last + 1 ELSE last>>))

\* u <= v, for magnitudes
DblLeq(u, v) ==
  LET a == <<u.int>> \o u.frac
      b == <<v.int>> \o v.frac
      differ == {t \in 1..(NumLimbs + 1) : a[t] # b[t]}
  IN differ = {} \/ a[SetMin(differ)] < b[SetMin(differ)]

\* A signed double; -0.0 equals 0.0 in every comparison and truth test of
\* the program, so zero is kept without a sign.
Float(neg, mag) == [neg |-> neg /\ mag # FromInt(0), mag |-> mag]

\* float(text): the double nearest to the rational the text denotes.
float(f) == Float(f.num < 0, DblDiv(Abs(f.num), f.den))

\* The value q / 4 (q in quarter units), which is exact.
FromQuarters(q) ==
  Float(q < 0, Dbl(Abs(q) \div 4, <<(Abs(q) % 4) * (Base \div 4), 0, 0, 0>>))

\* q / 4 * v, rounded: the float64 product of a median and a fraction.
FloatMulQ(q, v) == Float((q < 0) # v.neg, DblMulQ(Abs(q), v.mag))

\* u <= v
FloatLeq(u, v) ==
  IF u.neg THEN ~v.neg \/ DblLeq(v.mag, u.mag)
  ELSE ~v.neg /\ DblLeq(u.mag, v.mag)

(***************************************************************************)
(* scipy.signal.find_peaks(x, width, prominence), as main calls it.        *)
(* Positions inside these operators are 1-based; the left_ips and          *)
(* right_ips returned are 0-based like scipy's.                            *)
(***************************************************************************)
\* _local_maxima_1d: i_ahead, the first sample after i that differs from
\* x[i], or the last sample.
PlateauEnd(x, i) == SetMin({j \in (i + 1)..Len(x) : x[j] # x[i] \/ j = Len(x)})

\* _local_maxima_1d: the midpoints of the plateaus that rise strictly on the
\* left and fall strictly on the right; the first and last sample are never
\* peaks.
LocalMaxima(x) ==
  LET edges == {i \in 2..(Len(x) - 1) :
                  x[i - 1] < x[i] /\ x[PlateauEnd(x, i)] < x[i]}
  IN {(i + PlateauEnd(x, i) - 1) \div 2 : i \in edges}

\* _peak_prominences with wlen unset: walk outwards from the peak while the
\* signal is not above it; the base on each side is the lowest sample met
\* (the one nearest the peak on ties).
PeakProminence(x, peak) ==
  LET lo == SetMin({a \in 1..peak : \A j \in a..peak : x[j] <= x[peak]})
      hi == SetMax({b \in peak..Len(x) : \A j \in peak..b : x[j] <= x[peak]})
      left_min == SetMin({x[j] : j \in lo..peak})
      right_min == SetMin({x[j] : j \in peak..hi})
  IN [prominence |-> x[peak] - Max2(left_min, right_min),
      left_base |-> SetMax({j \in lo..peak : x[j] = left_min}),
      right_base |-> SetMin({j \in peak..hi : x[j] = right_min})]

\* _peak_widths at rel_height 0.5: height = x[peak] - prominence / 2; the
\* crossing on each side is the first sample, walking from the peak to the
\* base, that is not above height, interpolated linearly towards the peak
\* when it is strictly below.  The quotient, the sum and the difference are
\* float64 operations, each rounded.
PeakWidth(x, peak, pp) ==
  LET height2 == 2 * x[peak] - pp.prominence
      il == SetMax({i \in pp.left_base..peak :
                      i = pp.left_base \/ 2 * x[i] <= height2})
      ir == SetMin({i \in peak..pp.right_base :
                      i = pp.right_base \/ 2 * x[i] <= height2})
  IN [left_ip |->
        \* il + (height - x[il]) / (x[il + 1] - x[il])
        IF 2 * x[il] < height2
        THEN DblAdd(FromInt(il - 1),
                    DblDiv(height2 - 2 * x[il], 2 * (x[il + 1] - x[il])))
        ELSE FromInt(il - 1),
      right_ip |->
        \* ir - (height - x[ir]) / (x[ir - 1] - x[ir])
        IF 2 * x[ir] < height2
        THEN DblSub(FromInt(ir - 1),
                    DblDiv(height2 - 2 * x[ir], 2 * (x[ir - 1] - x[ir])))
        ELSE FromInt(ir - 1)]

\* wmin <= widths, where widths = right_ips - left_ips in float64.
WidthAtLeast(w, wmin) ==
  DblLeq(FromInt(wmin), DblSub(w.right_ip, w.left_ip))

\* pmin <= prominences, for the double pmin.
ProminenceAtLeast(prom, pmin) == FloatLeq(pmin, Float(FALSE, FromInt(prom)))

find_peaks(x, width, prominence) ==
  LET info(peak) ==
        LET pp == PeakProminence(x, peak)
            w == PeakWidth(x, peak, pp)
        IN [peak |-> peak - 1, prominences |-> pp.prominence,
            left_ips |-> w.left_ip, right_ips |-> w.right_ip,
            keep |-> /\ prominence # None
                        => ProminenceAtLeast(pp.prominence, prominence[1])
                     /\ WidthAtLeast(w, width)]
      all == {info(peak) : peak \in LocalMaxima(x)}
  IN {[peak |-> p.peak, prominences |-> p.prominences,
       left_ips |-> p.left_ips, right_ips |-> p.right_ips] :
        p \in {q \in all : q.keep}}

(***************************************************************************)
(* intervaltree.Interval(begin, end, data).                                *)
(***************************************************************************)
Interval(begin, end, data) == [begin |-> begin, end |-> end, data |-> data]

(***************************************************************************)
(* Per-chromosome thresholds (main): the chromosome median times the       *)
(* parsed fraction, a float64 product; the prominence threshold is None    *)
(* when the fraction is unset or 0.                                        *)
(***************************************************************************)
ChrMedian(df_chr_methyl) == Median(AvgQ(df_chr_methyl))[1]

\* "if args.thr_prom_perc_valley"
TruthyFrac(o) == o # None /\ float(o[1]).mag # FromInt(0)

cdr_prom_thr(df_chr_methyl, a) ==
  IF TruthyFrac(a.thr_prom_perc_valley)
  THEN Some(FloatMulQ(ChrMedian(df_chr_methyl),
                      float(a.thr_prom_perc_valley[1])))
  ELSE None

cdr_height_thr(df_chr_methyl, a) ==
  FloatMulQ(ChrMedian(df_chr_methyl), float(a.thr_height_perc_valley))

(***************************************************************************)
(* Coordinate mapper (main, "Convert approx indices to indices"):          *)
(* math.floor of the left boundary, math.ceil of the right one, and the    *)
(* row of the run with that index.                                         *)
(***************************************************************************)
\* Variants of the two roundings: a left boundary rounded up, and a right
\* boundary taken one row further.
RoundUp(ip) == IF ip.frac = NoFrac THEN ip.int ELSE ip.int + 1
CeilPlusOne(ip) == (IF ip.frac = NoFrac THEN ip.int ELSE ip.int + 1) + 1

Floor(ip) == ip.int
Ceil(ip) == IF ip.frac = NoFrac THEN ip.int ELSE ip.int + 1

RowsWithIndex(grp, k) ==
  LET Hit(row) == row.index = k IN SelectSeq(grp, Hit)

\* -df_chr_methyl_adj_grp["avg"]
NegAvg(grp) == [i \in DOMAIN grp |-> 0 - grp[i].avg]

Width == 1

PeakInfo(grp, prom_thr) == find_peaks(NegAvg(grp), Width, prom_thr)

\* .row(0) of an empty selection raises.
LookupFails(grp, prom_thr) ==
  \E p \in PeakInfo(grp, prom_thr) :
    \/ RowsWithIndex(grp, Floor(p.left_ips)) = <<>>
    \/ RowsWithIndex(grp, Ceil(p.right_ips)) = <<>>

GrpCdrIntervals(grp, prom_thr) ==
  {Interval(RowsWithIndex(grp, Floor(p.left_ips))[1].st,
            RowsWithIndex(grp, Ceil(p.right_ips))[1].end,
            Some(p.prominences)) : p \in PeakInfo(grp, prom_thr)}

(***************************************************************************)
(* Edge-height evaluation of one candidate (body of the loop over          *)
(* grp_cdr_intervals).                                                     *)
(***************************************************************************)
\* The avg column after replacing ignored rows by the chromosome median.
SubstAvg(df_side, chr_median) ==
  [i \in DOMAIN df_side |->
     IF df_side[i].ignore THEN chr_median ELSE Q(df_side[i].avg)]

\* "cdr_x_median if cdr_x_median else <run median>"
OrRunMedian(side_median, grp) ==
  IF Truthy(side_median) THEN side_median[1] ELSE Median(AvgQ(grp))[1]

\* cdr_height >= cdr_height_thr
\* Variant of the acceptance test with the comparison turned round.
AcceptBelow(cdr_height, thr) == FloatLeq(FromQuarters(cdr_height), thr)

Accept(cdr_height, thr) == FloatLeq(thr, FromQuarters(cdr_height))

EvalCdr(df_chr_methyl, grp, interval, grp_cdr_intervals, a) ==
  LET ignore_intervals == grp_cdr_intervals \ {interval}
      df_cdr == get_interval(grp, interval, {})
      interval_cdr_left ==
        Interval(interval.begin - a.bp_edge, interval.begin, None)
      interval_cdr_right ==
        Interval(interval.end, interval.end + a.bp_edge, None)
      df_cdr_left == get_interval(grp, interval_cdr_left, ignore_intervals)
      df_cdr_right == get_interval(grp, interval_cdr_right, ignore_intervals)
      cdr_low == SetMin(Range(AvgQ(df_cdr)))
      cdr_right_median ==
        Median(SubstAvg(df_cdr_right, ChrMedian(df_chr_methyl)))
      cdr_left_median ==
        Median(SubstAvg(df_cdr_left, ChrMedian(df_chr_methyl)))
      cdr_edge_height ==
        Min2(OrRunMedian(cdr_right_median, grp),
             OrRunMedian(cdr_left_median, grp))
      cdr_height == cdr_edge_height - cdr_low
      thr == cdr_height_thr(df_chr_methyl, a)
      pad == IF Truthy(a.bp_merge) THEN a.bp_merge[1] ELSE 0
  IN [interval |-> interval,
      cdr_low |-> cdr_low,
      cdr_left_median |-> cdr_left_median,
      cdr_right_median |-> cdr_right_median,
      cdr_edge_height |-> cdr_edge_height,
      cdr_height |-> cdr_height,
      accept |-> Accept(cdr_height, thr),
      cdr |-> Interval(interval.begin - pad, interval.end + pad, None)]

(***************************************************************************)
(* IntervalTree.merge_overlaps() with its defaults (strict): sweep the     *)
(* intervals in sorted order and extend the last merged interval while the *)
(* next one begins strictly before its end.                                *)
(***************************************************************************)
IntervalLess(x, y) ==
  x.begin < y.begin \/ (x.begin = y.begin /\ x.end < y.end)

RECURSIVE SortedIntervals(_)
SortedIntervals(S) ==
  IF S = {} THEN <<>>
  ELSE LET lowest == CHOOSE x \in S : \A y \in S \ {x} : IntervalLess(x, y)
       IN <<lowest>> \o SortedIntervals(S \ {lowest})

\* Variant of the merge test that never joins.
NeverMerge(lower, higher) == FALSE

ShouldMerge(lower, higher) == higher.begin < lower.end

RECURSIVE MergeSweep(_, _)
MergeSweep(sorted, merged) ==
  IF sorted = <<>> THEN merged
  ELSE LET higher == Head(sorted)
           n == Len(merged)
       IN IF n > 0 /\ ShouldMerge(merged[n], higher)
          THEN MergeSweep(Tail(sorted),
                 [merged EXCEPT ![n] =
                    Interval(merged[n].begin,
                             Max2(merged[n].end, higher.end), None)])
          ELSE MergeSweep(Tail(sorted), Append(merged, higher))

merge_overlaps(cdrs) == Range(MergeSweep(SortedIntervals(cdrs), <<>>))

(***************************************************************************)
(* The output row of one interval of a chromosome: the pad is taken off    *)
(* again when bp_merge is set.                                             *)
(***************************************************************************)
\* Variant of the output row that leaves the pad on.
OutRowPadded(c, cdr, a) == [chrom |-> c, st |-> cdr.begin, end |-> cdr.end]

OutRow(c, cdr, a) ==
  LET pad == IF Truthy(a.bp_merge) THEN a.bp_merge[1] ELSE 0
  IN [chrom |-> c, st |-> cdr.begin + pad, end |-> cdr.end - pad]

(***************************************************************************)
(* main for one chromosome, as a function of its rows and the arguments:   *)
(* the evaluations of every candidate of every run, whether adding an      *)
(* accepted candidate raises, and, for a run that does not raise, the      *)
(* candidates accepted, the intervals collected, and the rows written.     *)
(***************************************************************************)
\* IntervalTree.add raises ValueError for a null interval
\* (Interval.is_null: begin >= end), which a negative bp_merge can make.
is_null(interval) == interval.begin >= interval.end

RunEvals(df_chr_methyl, grp, a) ==
  LET cands == GrpCdrIntervals(grp, cdr_prom_thr(df_chr_methyl, a))
  IN {EvalCdr(df_chr_methyl, grp, interval, cands, a) : interval \in cands}

ChromEvals(df_chr_methyl, a) ==
  UNION {RunEvals(df_chr_methyl, WithRowIndex(g), a) :
           g \in Range(AdjGroups(df_chr_methyl))}

ChromRaises(df_chr_methyl, a) ==
  \E e \in ChromEvals(df_chr_methyl, a) : e.accept /\ is_null(e.cdr)

ChromFound(c, df_chr_methyl, a) ==
  {[chrom |-> c, st |-> e.interval.begin, end |-> e.interval.end] :
     e \in {x \in ChromEvals(df_chr_methyl, a) : x.accept}}

ChromCdrs(df_chr_methyl, a) ==
  {e.cdr : e \in {x \in ChromEvals(df_chr_methyl, a) : x.accept}}

ChromOutput(c, df_chr_methyl, a) ==
  LET cdrs == ChromCdrs(df_chr_methyl, a)
  IN {OutRow(c, cdr, a) :
        cdr \in IF Truthy(a.bp_merge) THEN merge_overlaps(cdrs) ELSE cdrs}

(***************************************************************************)
(* Bounds of the input tables.  A table is a binned track of bins of       *)
(* BinWidth bases, each bin either missing (a coordinate gap) or carrying  *)
(* one of three avg levels up to MaxAvg.  The small tables have MaxRows    *)
(* bins, any of them missing; the long tables have LongRows bins, none     *)
(* missing.  bp_merge ranges up to MaxPad.                                 *)
(***************************************************************************)
MaxRows == 5
LongRows == 7
MaxAvg == 2
BinWidth == 2
MaxPad == 1
DefaultBpEdge == 5000

Missing == 0 - 1

\* The rows of the bins first..last of cells that are present, as
\* chromosome c, with coordinates counted from bin first.
RECURSIVE BinRows(_, _, _, _, _)
BinRows(cells, first, last, c, w) ==
  IF first > last THEN <<>>
  ELSE BinRows(cells, first, last - 1, c, w)
         \o (IF cells[last] = Missing THEN <<>>
             ELSE <<[chrom |-> c, st |-> (last - first) * w,
                     end |-> (last - first + 1) * w, avg |-> cells[last]]>>)

\* One chromosome when split = Len(cells), else two.
Table(cells, split, w) ==
  BinRows(cells, 1, split, "chr1", w)
    \o BinRows(cells, split + 1, Len(cells), "chr2", w)

Frac(n, d) == [num |-> n, den |-> d]

Args(bp_merge, thr_height, thr_prom, bp_edge) ==
  [bp_merge |-> bp_merge, thr_height_perc_valley |-> thr_height,
   thr_prom_perc_valley |-> thr_prom, bp_edge |-> bp_edge]

\* The scenario of the documentation: three contiguous rows of 100 bases
\* with avg 80, 10, 80, and the default arguments.
ScenarioTable ==
  <<[chrom |-> "chr1", st |-> 0, end |-> 100, avg |-> 80],
    [chrom |-> "chr1", st |-> 100, end |-> 200, avg |-> 10],
    [chrom |-> "chr1", st |-> 200, end |-> 300, avg |-> 80]>>
DefaultArgs == Args(None, Frac(1, 2), None, DefaultBpEdge)

\* Two tables with a valley whose width at half prominence is 1 in exact
\* arithmetic and below 1 in float64 (the interpolation meets thirds and
\* sixths): avg 5, 3, 0, 15 and the second valley of avg 4, 0, 4, 3, 0, 6.
RoundingTables ==
  {Table(<<5, 3, 0, 15>>, 4, BinWidth),
   Table(<<4, 0, 4, 3, 0, 6>>, 6, BinWidth)}

\* A table and arguments whose threshold the float64 product rounds up:
\* the median 25 times 0.56 is above 14, the height and the prominence of
\* the valley of avg 25, 11, 25.
ThresholdTable == Table(<<25, 11, 25>>, 3, BinWidth)
ThresholdArgs ==
  {Args(None, Frac(14, 25), None, DefaultBpEdge),
   Args(None, Frac(1, 2), Some(Frac(14, 25)), DefaultBpEdge)}

\* A negative bp_merge, which shrinks a candidate of up to four bins to
\* nothing.
NegPad == 0 - 2 * BinWidth

\* The avg levels of the tables: none, half and full.
Levels == {0, MaxAvg \div 2, MaxAvg}

SmallTables ==
  {Table(cells, MaxRows, BinWidth) :
     cells \in [1..MaxRows -> {Missing} \cup Levels]} \ {<<>>}

\* The small tables without the half level.
CoarseTables ==
  {Table(cells, MaxRows, BinWidth) :
     cells \in [1..MaxRows -> {Missing, 0, MaxAvg}]} \ {<<>>}

SmallArgs ==
  {Args(m, Frac(h, 2), p, e * BinWidth) :
     m \in {None} \cup {Some(k) : k \in 0..MaxPad},
     h \in 1..2,
     p \in {None, Some(Frac(1, 2))},
     e \in 1..2}

\* Arguments outside the usual ranges: a negative and a tiny height
\* fraction, a negative prominence fraction with a negative bp_edge, and a
\* negative bp_merge.
SignedArgs ==
  {Args(m, h, x[1], x[2]) :
     m \in {None, Some(MaxPad)},
     h \in {Frac(0 - 1, 10), Frac(1, 1000000)},
     x \in {<<None, DefaultBpEdge>>,
            <<Some(Frac(0 - 14, 25)), 0 - BinWidth>>}}
    \cup {Args(Some(NegPad), h, None, DefaultBpEdge) :
            h \in {Frac(0 - 1, 10), Frac(1, 2)}}

LongTables ==
  {Table(cells, LongRows, BinWidth) : cells \in [1..LongRows -> Levels]}

\* Two chromosomes of three contiguous bins each.
TwoChromTables ==
  {Table(cells, 3, BinWidth) : cells \in [1..6 -> Levels]}

LongArgs ==
  {Args(m, Frac(1, 2), None, DefaultBpEdge) :
     m \in {None, Some(MaxPad)}}

\* Eight contiguous bins with three valleys, the shallow middle one reaching
\* both outer ones, which lie more than two pads apart.
BridgeTable ==
  Table(<<MaxAvg, 0, MaxAvg, MaxAvg \div 2, MaxAvg, MaxAvg, 0, MaxAvg>>, 8,
        BinWidth)

\* A negative height fraction and a negative bp_merge on the long tables.
LongSignedArgs ==
  {Args(m, Frac(0 - 1, 10), None, DefaultBpEdge) :
     m \in {None, Some(MaxPad), Some(NegPad)}}
    \cup {Args(Some(NegPad), Frac(1, 2), None, DefaultBpEdge)}

(***************************************************************************)
(* The program state.                                                      *)
(***************************************************************************)
VARIABLES
  df,                       \* the input table
  args,                     \* the parsed arguments
  pc,                       \* "groups", "eval", "output", "write", or, after
                            \* an exception, "error" or "value_error"
  todo_chroms,              \* chromosomes df.group_by has not yielded yet
  chrom,                    \* the chromosome being processed
  df_chr_methyl,            \* its rows
  df_chr_methyl_adj_groups, \* its runs
  gi,                       \* position of the next run to process
  df_chr_methyl_adj_grp,    \* the current run, with its row index
  grp_cdr_intervals,        \* the candidates of the current run
  todo,                     \* candidates the loop has not visited yet
  ev,                       \* locals of the last evaluation in this run
  found,                    \* "Found CDR at ..." lines on stderr
  cdr_intervals,            \* chromosome -> its IntervalTree, as a set
  keys,                     \* key order of cdr_intervals
  ki,                       \* position of the next key to write out
  out_todo,                 \* intervals cdrs.iter() has not yielded yet
  outfile                   \* rows written

vars ==
  <<df, args, pc, todo_chroms, chrom, df_chr_methyl, df_chr_methyl_adj_groups,
    gi, df_chr_methyl_adj_grp, grp_cdr_intervals, todo, ev, found,
    cdr_intervals, keys, ki, out_todo, outfile>>

Chroms(table) == {table[i].chrom : i \in DOMAIN table}

ChromRows(table, c) ==
  LET Of(row) == row.chrom = c IN SelectSeq(table, Of)

Start(table, a) ==
  /\ df = table
  /\ args = a
  /\ pc = "groups"
  /\ todo_chroms = Chroms(table)
  /\ chrom = ""
  /\ df_chr_methyl = <<>>
  /\ df_chr_methyl_adj_groups = <<>>
  /\ gi = 1
  /\ df_chr_methyl_adj_grp = <<>>
  /\ grp_cdr_intervals = {}
  /\ todo = {}
  /\ ev = None
  /\ found = {}
  /\ cdr_intervals = <<>>
  /\ keys = <<>>
  /\ ki = 1
  /\ out_todo = {}
  /\ outfile = <<>>

Init ==
  \/ \E table \in SmallTables, a \in SmallArgs : Start(table, a)
  \/ \E table \in CoarseTables, a \in SignedArgs : Start(table, a)
  \/ Start(ScenarioTable, DefaultArgs)
  \/ \E table \in RoundingTables : Start(table, DefaultArgs)
  \/ \E a \in ThresholdArgs : Start(ThresholdTable, a)

\* Where control goes when the loop over a run's candidates has nothing
\* left: the next run, the next chromosome, or the output loop.
AfterRun(g, groups, chroms_left) ==
  IF g > Len(groups) /\ chroms_left = {} THEN "output" ELSE "groups"

\* for chrom, df_chr_methyl in df.group_by(["chrom"]): the next group, in
\* the order group_by happens to yield; segment it.
NextChrom ==
  /\ pc = "groups"
  /\ gi > Len(df_chr_methyl_adj_groups)
  /\ \E c \in todo_chroms :
       /\ chrom' = c
       /\ todo_chroms' = todo_chroms \ {c}
       /\ df_chr_methyl' = ChromRows(df, c)
       /\ df_chr_methyl_adj_groups' = AdjGroups(ChromRows(df, c))
  /\ gi' = 1
  /\ ev' = None
  /\ UNCHANGED <<df, args, pc, df_chr_methyl_adj_grp, grp_cdr_intervals, todo,
                 found, cdr_intervals, keys, ki, out_todo, outfile>>

\* for df_chr_methyl_adj_grp in df_chr_methyl_adj_groups: find the valleys
\* of the next run and map them to coordinates.
FindPeaks ==
  /\ pc = "groups"
  /\ gi <= Len(df_chr_methyl_adj_groups)
  /\ LET grp == WithRowIndex(df_chr_methyl_adj_groups[gi])
         prom_thr == cdr_prom_thr(df_chr_methyl, args)
         cands == GrpCdrIntervals(grp, prom_thr)
     IN /\ df_chr_methyl_adj_grp' = grp
        /\ gi' = gi + 1
        /\ IF LookupFails(grp, prom_thr)
           THEN /\ pc' = "error"
                /\ UNCHANGED <<grp_cdr_intervals, todo>>
           ELSE /\ grp_cdr_intervals' = cands
                /\ todo' = cands
                /\ pc' = IF cands = {}
                         THEN AfterRun(gi + 1, df_chr_methyl_adj_groups,
                                       todo_chroms)
                         ELSE "eval"
  /\ ev' = None
  /\ UNCHANGED <<df, args, todo_chroms, chrom, df_chr_methyl,
                 df_chr_methyl_adj_groups, found, cdr_intervals, keys, ki,
                 out_todo, outfile>>

\* cdr_intervals[chrom].add(cdr): the defaultdict makes the tree on first
\* use; the tree is a set, and add raises for a null interval before it
\* changes the tree.
AddCdr(trees, c, cdr) ==
  LET made == IF c \in DOMAIN trees THEN trees ELSE trees @@ (c :> {})
  IN IF is_null(cdr) THEN made ELSE [made EXCEPT ![c] = @ \cup {cdr}]

\* for interval in grp_cdr_intervals: one iteration, in the set's order.
EvalCandidate ==
  /\ pc = "eval"
  /\ \E interval \in todo :
       LET e == EvalCdr(df_chr_methyl, df_chr_methyl_adj_grp, interval,
                        grp_cdr_intervals, args)
       IN /\ ev' = Some(e)
          /\ todo' = todo \ {interval}
          /\ pc' = IF e.accept /\ is_null(e.cdr) THEN "value_error"
                   ELSE IF todo \ {interval} = {}
                   THEN AfterRun(gi, df_chr_methyl_adj_groups, todo_chroms)
                   ELSE "eval"
          /\ IF e.accept
             THEN /\ found' = found \cup
                       {[chrom |-> chrom, st |-> interval.begin,
                         end |-> interval.end]}
                  /\ cdr_intervals' = AddCdr(cdr_intervals, chrom, e.cdr)
                  /\ keys' = IF chrom \in DOMAIN cdr_intervals THEN keys
                             ELSE Append(keys, chrom)
             ELSE UNCHANGED <<found, cdr_intervals, keys>>
  /\ UNCHANGED <<df, args, todo_chroms, chrom, df_chr_methyl,
                 df_chr_methyl_adj_groups, gi, df_chr_methyl_adj_grp,
                 grp_cdr_intervals, ki, out_todo, outfile>>

\* for chrom, cdrs in cdr_intervals.items(): merge the chromosome's tree
\* when bp_merge is set, and start iterating it.
\* Variant of the merge step that iterates the tree as it was before the
\* merge.
MergeChromStale ==
  /\ pc = "output"
  /\ ki <= Len(keys)
  /\ LET c == keys[ki]
         cdrs == IF Truthy(args.bp_merge) THEN merge_overlaps(cdr_intervals[c])
                 ELSE cdr_intervals[c]
     IN /\ cdr_intervals' = [cdr_intervals EXCEPT ![c] = cdrs]
        /\ out_todo' = cdr_intervals[c]
  /\ ki' = ki + 1
  /\ pc' = "write"
  /\ UNCHANGED <<df, args, todo_chroms, chrom, df_chr_methyl,
                 df_chr_methyl_adj_groups, gi, df_chr_methyl_adj_grp,
                 grp_cdr_intervals, todo, ev, found, keys, outfile>>

MergeChrom ==
  /\ pc = "output"
  /\ ki <= Len(keys)
  /\ LET c == keys[ki]
         cdrs == IF Truthy(args.bp_merge) THEN merge_overlaps(cdr_intervals[c])
                 ELSE cdr_intervals[c]
     IN /\ cdr_intervals' = [cdr_intervals EXCEPT ![c] = cdrs]
        /\ out_todo' = cdrs
  /\ ki' = ki + 1
  /\ pc' = "write"
  /\ UNCHANGED <<df, args, todo_chroms, chrom, df_chr_methyl,
                 df_chr_methyl_adj_groups, gi, df_chr_methyl_adj_grp,
                 grp_cdr_intervals, todo, ev, found, keys, outfile>>

\* for cdr in cdrs.iter(): write one row, in the order the tree's set of
\* intervals happens to iterate.
WriteRow ==
  /\ pc = "write"
  /\ \E cdr \in out_todo :
       /\ outfile' = Append(outfile, OutRow(keys[ki - 1], cdr, args))
       /\ out_todo' = out_todo \ {cdr}
       /\ pc' = IF out_todo \ {cdr} = {} THEN "output" ELSE "write"
  /\ UNCHANGED <<df, args, todo_chroms, chrom, df_chr_methyl,
                 df_chr_methyl_adj_groups, gi, df_chr_methyl_adj_grp,
                 grp_cdr_intervals, todo, ev, found, cdr_intervals, keys, ki>>

Next == NextChrom \/ FindPeaks \/ EvalCandidate \/ MergeChrom \/ WriteRow

Spec == Init /\ [][Next]_vars

\* The same program on the long and the two-chromosome tables.
InitLong ==
  \/ \E table \in LongTables \cup TwoChromTables \cup {BridgeTable},
        a \in LongArgs : Start(table, a)
  \/ \E table \in TwoChromTables \cup {BridgeTable}, a \in LongSignedArgs :
       Start(table, a)

SpecLong == InitLong /\ [][Next]_vars

\* main has returned.
Done == pc = "output" /\ ki > Len(keys)

(***************************************************************************)
(* Properties.                                                             *)
(***************************************************************************)
OutRowsOf(c) == {outfile[i] : i \in {j \in DOMAIN outfile : outfile[j].chrom = c}}
OutCount(c) == Cardinality({j \in DOMAIN outfile : outfile[j].chrom = c})
FoundOf(c) == {f \in found : f.chrom = c}
Overlap(x, y) == x.begin < y.end /\ y.begin < x.end
Touch(x, y) == x.end = y.begin \/ y.end = x.begin
Contiguous(rows) ==
  \A i \in 1..(Len(rows) - 1) : rows[i].end = rows[i + 1].st
PadSet == Truthy(args.bp_merge) /\ args.bp_merge[1] > 0
\* The chromosomes whose tree the output loop has already merged.
MergedKeys == {keys[k] : k \in 1..(ki - 1)}
\* The padded intervals of the accepted candidates of chromosome c.
PaddedFound(c) ==
  {Interval(f.st - args.bp_merge[1], f.end + args.bp_merge[1], None) :
     f \in FoundOf(c)}

\* C1: the segmenter's runs break at every coordinate gap and only there: two
\* consecutive rows of a chromosome are in the same run iff the first row's
\* end equals the next row's start, so the run handed to the valley detector
\* contains no gap.
SameRun(groups, r1, r2) ==
  \E g \in DOMAIN groups : r1 \in Range(groups[g]) /\ r2 \in Range(groups[g])

C1_RunsBreakAtGaps ==
  /\ \A i \in 1..(Len(df_chr_methyl) - 1) :
       SameRun(df_chr_methyl_adj_groups, df_chr_methyl[i], df_chr_methyl[i + 1])
         <=> df_chr_methyl[i].end = df_chr_methyl[i + 1].st
  /\ Contiguous(df_chr_methyl_adj_grp)

\* The positions of a run whose row is lower than both neighbouring rows.
SingleRowValleys(grp) ==
  {i \in 2..(Len(grp) - 1) :
     grp[i - 1].avg > grp[i].avg /\ grp[i].avg < grp[i + 1].avg}

Scenario == Done /\ df = ScenarioTable /\ args = DefaultArgs

\* The candidates of the present run have just been mapped to coordinates.
JustMapped == pc = "eval" /\ todo = grp_cdr_intervals

\* C2 as claimed: the scenario writes exactly the row chr1 100 200, and a
\* detected single-row valley between two higher rows of a contiguous run is
\* a candidate with the coordinates of the valley row.
C2_ValleyRowReported ==
  /\ Scenario => outfile = <<[chrom |-> "chr1", st |-> 100, end |-> 200]>>
  /\ (JustMapped /\ Contiguous(df_chr_methyl_adj_grp)) =>
       \A p \in PeakInfo(df_chr_methyl_adj_grp,
                         cdr_prom_thr(df_chr_methyl, args)) :
         (p.peak + 1) \in SingleRowValleys(df_chr_methyl_adj_grp) =>
           Interval(df_chr_methyl_adj_grp[p.peak + 1].st,
                    df_chr_methyl_adj_grp[p.peak + 1].end,
                    Some(p.prominences)) \in grp_cdr_intervals

\* C2 amended: the scenario writes exactly the row chr1 0 300, and a detected
\* single-row valley between two higher rows of a contiguous run is a
\* candidate that reaches at least one row beyond the valley row on each
\* side (floor on the left and ceiling on the right widen it outwards).
C2_ValleyWidened ==
  /\ Scenario => outfile = <<[chrom |-> "chr1", st |-> 0, end |-> 300]>>
  /\ (JustMapped /\ Contiguous(df_chr_methyl_adj_grp)) =>
       \A p \in PeakInfo(df_chr_methyl_adj_grp,
                         cdr_prom_thr(df_chr_methyl, args)) :
         (p.peak + 1) \in SingleRowValleys(df_chr_methyl_adj_grp) =>
           \E c \in grp_cdr_intervals :
             /\ c.data = Some(p.prominences)
             /\ c.begin <= df_chr_methyl_adj_grp[p.peak].st
             /\ c.end >= df_chr_methyl_adj_grp[p.peak + 2].end

C2_Witness ==
  Scenario /\ outfile = <<[chrom |-> "chr1", st |-> 0, end |-> 300]>>

\* C3 as claimed: once a chromosome's tree is merged (bp_merge set), no two
\* of its intervals overlap or touch.
C3_TouchingCollapsed ==
  Truthy(args.bp_merge) =>
    \A c \in MergedKeys : \A x, y \in cdr_intervals[c] :
      x # y => ~Overlap(x, y) /\ ~Touch(x, y)

\* C4: with bp_merge positive, the rows written for one chromosome are
\* pairwise non-overlapping: one ends at or before the other begins.
C4_OutputsDisjoint ==
  PadSet =>
    \A i, j \in DOMAIN outfile :
      (i # j /\ outfile[i].chrom = outfile[j].chrom) =>
        \/ outfile[i].end <= outfile[j].st
        \/ outfile[j].end <= outfile[i].st

C4_Witness ==
  /\ Done
  /\ PadSet
  /\ \E c \in MergedKeys : OutCount(c) >= 2 /\ Cardinality(FoundOf(c)) >= 2

\* The accepted candidates of f's chromosome whose padded interval overlaps
\* the padded interval of f.
Isolated(f) ==
  \A g \in FoundOf(f.chrom) \ {f} :
    ~Overlap(Interval(f.st - args.bp_merge[1], f.end + args.bp_merge[1], None),
             Interval(g.st - args.bp_merge[1], g.end + args.bp_merge[1], None))

\* C5: with bp_merge positive, every row written for a chromosome begins at
\* the least unpadded begin and ends at the greatest unpadded end of the
\* accepted candidates inside it, every accepted candidate lies inside a
\* written row, and a candidate whose padded interval overlaps no other is
\* written with exactly its own coordinates, the row written when bp_merge is
\* unset.
C5_PadReversed ==
  (Done /\ PadSet) =>
    \A c \in Chroms(df) :
      /\ \A r \in OutRowsOf(c) :
           LET inside == {f \in FoundOf(c) : f.st >= r.st /\ f.end <= r.end}
           IN /\ inside # {}
              /\ r.st = SetMin({f.st : f \in inside})
              /\ r.end = SetMax({f.end : f \in inside})
      /\ \A f \in FoundOf(c) :
           /\ \E r \in OutRowsOf(c) : f.st >= r.st /\ f.end <= r.end
           /\ Isolated(f) =>
                /\ f \in OutRowsOf(c)
                /\ f \in ChromOutput(c, ChromRows(df, c),
                                     [args EXCEPT !.bp_merge = None])

C5_Witness ==
  /\ Done
  /\ PadSet
  /\ \E c \in Chroms(df) :
       /\ OutCount(c) >= 1
       /\ OutCount(c) < Cardinality(FoundOf(c))

\* C6: the index lookup of the coordinate mapper never fails, and every row
\* written has begin < end and lies within the span of its chromosome's
\* input rows.
C6_OutputWithinSpan ==
  /\ pc # "error"
  /\ \A i \in DOMAIN outfile :
       LET rows == ChromRows(df, outfile[i].chrom)
       IN /\ outfile[i].st < outfile[i].end
          /\ SetMin({rows[k].st : k \in DOMAIN rows}) <= outfile[i].st
          /\ outfile[i].end <= SetMax({rows[k].end : k \in DOMAIN rows})

C6_Witness ==
  /\ Done
  /\ PadSet
  /\ args.thr_height_perc_valley.num < 0
  /\ TruthyFrac(args.thr_prom_perc_valley)
  /\ outfile # <<>>
  /\ \E c \in Chroms(df) : Len(AdjGroups(ChromRows(df, c))) >= 2

\* The arguments with a height fraction larger than the present one.
FracLess(x, y) == x.num * y.den < y.num * x.den
HeightFracs ==
  {Frac(0 - 1, 10), Frac(1, 1000000), Frac(1, 2), Frac(1, 1)}
LargerHeightArgs ==
  {[args EXCEPT !.thr_height_perc_valley = h] :
     h \in {x \in HeightFracs : FracLess(args.thr_height_perc_valley, x)}}

\* C7 as claimed: a larger thr_height_perc_valley never writes more rows for
\* a chromosome, whether bp_merge is set or not.
C7_OutputRowsMonotone ==
  Done =>
    \A a2 \in LargerHeightArgs : \A c \in Chroms(df) :
      Cardinality(ChromOutput(c, ChromRows(df, c), a2)) <= OutCount(c)

\* C7 amended: when the run with the smaller thr_height_perc_valley
\* returns (only a negative bp_merge can make it raise), the run with a
\* larger one returns too and accepts a subset of the candidates the
\* smaller one accepts (so never more of them, whether bp_merge is set or
\* not), and with bp_merge unset it never writes more rows; with bp_merge
\* set the number of rows written may grow.
C7_AcceptedMonotone ==
  Done =>
    \A a2 \in LargerHeightArgs : \A c \in Chroms(df) :
      LET accepted == {e \in ChromEvals(ChromRows(df, c), a2) : e.accept}
      IN /\ \A e \in accepted : ~is_null(e.cdr)
         /\ \A e \in accepted :
              [chrom |-> c, st |-> e.interval.begin, end |-> e.interval.end]
                \in FoundOf(c)
         /\ ~Truthy(args.bp_merge) =>
              Cardinality(ChromOutput(c, ChromRows(df, c), a2)) <= OutCount(c)

C7_Witness ==
  /\ Done
  /\ \E a2 \in LargerHeightArgs : \E c \in Chroms(df) :
       /\ ChromFound(c, ChromRows(df, c), a2) # {}
       /\ ChromFound(c, ChromRows(df, c), a2) # FoundOf(c)

\* C8 as claimed: within one chromosome the row with the smaller begin is
\* written first.
C8_SortedOutput ==
  \A i, j \in DOMAIN outfile :
    (i < j /\ outfile[i].chrom = outfile[j].chrom) =>
      outfile[i].st <= outfile[j].st

\* C8 amended: each interval of a chromosome's (merged) tree is written
\* exactly once, the rows of one chromosome are written together, in the key
\* order of the trees; their order within the chromosome is the iteration
\* order of the tree's interval set and need not be sorted by position.
C8_EachIntervalOnce ==
  Done =>
    /\ \A c \in DOMAIN cdr_intervals :
         /\ OutRowsOf(c) = {OutRow(c, cdr, args) : cdr \in cdr_intervals[c]}
         /\ OutCount(c) = Cardinality(cdr_intervals[c])
    /\ \A i, j \in DOMAIN outfile :
         i < j => \E k, l \in DOMAIN keys :
           k <= l /\ keys[k] = outfile[i].chrom /\ keys[l] = outfile[j].chrom

C8_Witness ==
  /\ Done
  /\ \E i, j \in DOMAIN outfile :
       /\ i < j
       /\ outfile[i].chrom = outfile[j].chrom
       /\ outfile[i].st > outfile[j].st

\* C9: the run's median replaces a flank median exactly when that flank
\* window holds no row (its median is None); a flank window with at least one
\* row contributes its median as computed, also when that median is 0.
C9_FallbackOnlyWhenEmpty ==
  ev # None =>
    LET run_median == Median(AvgQ(df_chr_methyl_adj_grp))[1]
        Side(m) == IF m # None THEN m[1] ELSE run_median
    IN ev[1].cdr_edge_height =
         Min2(Side(ev[1].cdr_right_median), Side(ev[1].cdr_left_median))

\* C10: the height of candidate C is min(left_median, right_median) minus the
\* least avg of the run's rows inside C, the medians taken over the run's
\* rows inside [C.begin - bp_edge, C.begin) and [C.end, C.end + bp_edge)
\* (the run's median for a window without rows), a row counting as the
\* chromosome median exactly when it lies inside another candidate of the
\* run; C is accepted iff that height is at least the chromosome median
\* times thr_height_perc_valley.
C10_HeightOfCandidate ==
  ev # None =>
    LET C == ev[1].interval
        grp == df_chr_methyl_adj_grp
        others == grp_cdr_intervals \ {C}
        chr_median == ChrMedian(df_chr_methyl)
        Val(row) == IF \E o \in others : row.st >= o.begin /\ row.end <= o.end
                    THEN chr_median ELSE Q(row.avg)
        SideMedian(lo, hi) ==
          LET In(row) == row.st >= lo /\ row.end <= hi
              rows == SelectSeq(grp, In)
          IN IF rows = <<>> THEN Median(AvgQ(grp))[1]
             ELSE Median([i \in DOMAIN rows |-> Val(rows[i])])[1]
        low == SetMin({Q(grp[i].avg) :
                         i \in {k \in DOMAIN grp :
                                  grp[k].st >= C.begin /\ grp[k].end <= C.end}})
        height == Min2(SideMedian(C.begin - args.bp_edge, C.begin),
                       SideMedian(C.end, C.end + args.bp_edge)) - low
    IN /\ ev[1].cdr_height = height
       /\ ev[1].accept <=>
            Accept(height, cdr_height_thr(df_chr_methyl, args))

====
